---- MODULE Spec2Model ----
(***************************************************************************)
(* The incremental enrichment pipeline of movie-accuracy: title ingestion  *)
(* (importmovielist.py), the TMDB metadata stage (tmdbdata.py), the        *)
(* Wikipedia plot stage (importplots.py) and the category stage            *)
(* (moviecalc.py) over one SQLite store.                                   *)
(*                                                                         *)
(* The store is modelled twice: disk is what has been committed, db is     *)
(* what the running connection sees (committed rows plus the open          *)
(* transaction).  conn.commit() copies db to disk; a process that ends     *)
(* without committing (an uncaught exception, a kill) loses db.            *)
(***************************************************************************)
EXTENDS Integers, Sequences, FiniteSets, TLC

\* ------------------------------------------------------------------------
\* Bounds of the model
\* ------------------------------------------------------------------------
\* Largest number of rows the Movies table is allowed to grow to.
MaxMovies == 2
\* Largest value of the limit parameter a run is started with.
MaxLimit == 2

\* SQL NULL / Python None in a TEXT column or a text-valued result.
NULL == "<NULL>"
\* SQL NULL in an INTEGER column (tmdb_id, revenue); real values are >= 0.
NULLINT == -1

\* ------------------------------------------------------------------------
\* Sequence helpers
\* ------------------------------------------------------------------------
Range(s) == {s[i] : i \in DOMAIN s}

\* LIMIT n of a result list.
Limit(s, n) == SubSeq(s, 1, IF Len(s) < n THEN Len(s) ELSE n)

\* No two positions of s hold the same value.
NoDuplicates(s) == \A i, j \in DOMAIN s : s[i] = s[j] => i = j

\* ------------------------------------------------------------------------
\* The external collaborators: what TMDB and Wikipedia answer.  The answers
\* are fixed per title / per id for the whole behaviour (unchanged external
\* data).
\* ------------------------------------------------------------------------
\* Titles the ingestion step can deliver.
Titles == {"Ali", "Ali 2001", "Operation Anthropoid", "Lost Reel", "Ghost"}

\* The "results" list of the body of GET /search/movie for each title,
\* reduced to the ids of its entries.
SearchResponse(title) ==
    CASE title = "Ali"                  -> <<1>>
      [] title = "Ali 2001"             -> <<1, 5>>
      [] title = "Operation Anthropoid" -> <<2>>
      [] title = "Lost Reel"            -> <<>>
      [] title = "Ghost"                -> <<3>>

\* The JSON body of GET /movie/{id}.  A key that is absent from the body is
\* absent from the record's DOMAIN (id 3: an error body with none of the
\* fields the stage reads).
DetailsResponse(tmdb_id) ==
    CASE tmdb_id = 1 ->
           [id |-> 1, revenue |-> 100000000,
            overview |-> "The boxer Ali becomes a Professor.",
            genres |-> <<"Drama", "History", "Drama">>,
            release_date |-> "2001-12-25"]
      [] tmdb_id = 2 ->
           [id |-> 2, revenue |-> 50000000,
            overview |-> "A massive explosion destroys the facility.",
            genres |-> <<"History", "War">>,
            release_date |-> "2016-08-12"]
      [] OTHER       -> [status_code |-> 34]

\* What the HTTP exchanges of get_wikipedia_plot yield for a title: status
\* "raises" when a request raises, else the plot text found on the page, or
\* NULL when there is no page or no plot section; requests lists the requests
\* issued on the way (the page of the title, the search of search_wikipedia
\* after a page without plot, the page of the search's best match).
WikipediaResponse(title) ==
    CASE title = "Ali"                  -> [status |-> "ok", plot |-> "He fights.",
                                            requests |-> <<"page/html">>]
      [] title = "Ali 2001"             -> [status |-> "ok", plot |-> "He fights.",
                                            requests |-> <<"page/html", "w/api.php", "page/html">>]
      [] title = "Operation Anthropoid" -> [status |-> "ok", plot |-> NULL,
                                            requests |-> <<"page/html", "w/api.php">>]
      [] title = "Lost Reel"            -> [status |-> "raises", plot |-> NULL,
                                            requests |-> <<"page/html">>]
      [] title = "Ghost"                -> [status |-> "ok", plot |-> "A ghost story.",
                                            requests |-> <<"page/html">>]

\* ------------------------------------------------------------------------
\* The store (schema of setup_movies_table, setup_tables, create_plots_table,
\* create_categories_tables).  A table is the sequence of its rows in rowid
\* order.
\* ------------------------------------------------------------------------
\* The store right after the CREATE TABLE IF NOT EXISTS statements.
EmptyStore ==
    [Movies |-> <<>>, Genres |-> <<>>, MovieGenres |-> <<>>,
     ReleaseDates |-> <<>>, MovieReleaseDates |-> <<>>,
     Categories |-> <<>>, MovieCategories |-> <<>>, Plots |-> <<>>]

\* dict.get(key, default)
Get(d, key, default) == IF key \in DOMAIN d THEN d[key] ELSE default

\* A faulty insert, INSERT OR REPLACE INTO Movies (title): a row with the same
\* title is deleted and a new row, with the next rowid and NULL columns, takes
\* its place.
InsertOrReplaceMovie(movies, title) ==
    LET kept == SelectSeq(movies, LAMBDA m : m.title # title)
        ids == {movies[i].id : i \in DOMAIN movies}
        top == IF ids = {} THEN 0 ELSE CHOOSE x \in ids : \A y \in ids : y <= x
    IN  Append(kept, [id |-> top + 1, title |-> title,
                      tmdb_id |-> NULLINT, release_date |-> NULL,
                      revenue |-> NULLINT, overview |-> NULL])

\* INSERT OR IGNORE INTO Movies (title): title is UNIQUE, id is the rowid
\* (AUTOINCREMENT, rows are never deleted); the other columns start NULL.
InsertOrIgnoreMovie(movies, title) ==
    IF \E i \in DOMAIN movies : movies[i].title = title
    THEN movies
    ELSE Append(movies, [id |-> Len(movies) + 1, title |-> title,
                         tmdb_id |-> NULLINT, release_date |-> NULL,
                         revenue |-> NULLINT, overview |-> NULL])

RECURSIVE InsertTitles(_, _)
\* The loop of populate_movies_table over movie_titles.
InsertTitles(movies, movie_titles) ==
    IF movie_titles = <<>> THEN movies
    ELSE InsertTitles(InsertOrIgnoreMovie(movies, Head(movie_titles)), Tail(movie_titles))

\* tmdb_search_movie, when its request completes: the id of results[0], or
\* NULLINT for the None it returns on an empty result list.
tmdb_search_movie(title) ==
    LET results == SearchResponse(title)
    IN  IF results = <<>> THEN NULLINT ELSE results[1]

\* tmdb_get_movie_details: the parsed body, whatever it is.
tmdb_get_movie_details(tmdb_id) == DetailsResponse(tmdb_id)

\* UPDATE Movies SET tmdb_id, revenue, overview WHERE id = movie_id.
\* tmdb_id is UNIQUE (NULLs do not collide): err is the IntegrityError.
UpdateMovie(movies, movie_id, tmdb_id, revenue, overview) ==
    IF tmdb_id # NULLINT /\ \E i \in DOMAIN movies :
                               movies[i].id # movie_id /\ movies[i].tmdb_id = tmdb_id
    THEN [err |-> TRUE, tbl |-> movies]
    ELSE [err |-> FALSE,
          tbl |-> [i \in DOMAIN movies |->
                     IF movies[i].id = movie_id
                     THEN [movies[i] EXCEPT !.tmdb_id = tmdb_id, !.revenue = revenue,
                                            !.overview = overview]
                     ELSE movies[i]]]

\* A plain INSERT INTO Genres (name): name is UNIQUE NOT NULL.
InsertGenre(genres, genre_name) ==
    IF \E i \in DOMAIN genres : genres[i].name = genre_name
    THEN [err |-> TRUE, tbl |-> genres, id |-> 0]
    ELSE [err |-> FALSE, tbl |-> Append(genres, [id |-> Len(genres) + 1, name |-> genre_name]),
          id |-> Len(genres) + 1]

\* A faulty insert_or_get_genre that skips the SELECT and always inserts.
insert_or_get_genre_NoSelect(genres, genre_name) ==
    LET r == InsertGenre(genres, genre_name)
    IN  [err |-> r.err, tbl |-> r.tbl, inserted |-> ~r.err, id |-> r.id]

\* insert_or_get_genre: SELECT id WHERE name = ?, else INSERT and commit.
\* inserted tells the caller that conn.commit() ran.
insert_or_get_genre(genres, genre_name) ==
    IF \E i \in DOMAIN genres : genres[i].name = genre_name
    THEN [err |-> FALSE, tbl |-> genres, inserted |-> FALSE,
          id |-> genres[CHOOSE i \in DOMAIN genres : genres[i].name = genre_name].id]
    ELSE LET r == InsertGenre(genres, genre_name)
         IN  [err |-> r.err, tbl |-> r.tbl, inserted |-> ~r.err, id |-> r.id]

\* A plain INSERT INTO ReleaseDates (date): date is UNIQUE NOT NULL.
InsertReleaseDate(dates, release_date) ==
    IF \E i \in DOMAIN dates : dates[i].date = release_date
    THEN [err |-> TRUE, tbl |-> dates, id |-> 0]
    ELSE [err |-> FALSE, tbl |-> Append(dates, [id |-> Len(dates) + 1, date |-> release_date]),
          id |-> Len(dates) + 1]

\* insert_or_get_release_date: SELECT id WHERE date = ?, else INSERT and commit.
insert_or_get_release_date(dates, release_date) ==
    IF \E i \in DOMAIN dates : dates[i].date = release_date
    THEN [err |-> FALSE, tbl |-> dates, inserted |-> FALSE,
          id |-> dates[CHOOSE i \in DOMAIN dates : dates[i].date = release_date].id]
    ELSE LET r == InsertReleaseDate(dates, release_date)
         IN  [err |-> r.err, tbl |-> r.tbl, inserted |-> ~r.err, id |-> r.id]

\* A faulty link: a plain INSERT into a MovieGenres without its UNIQUE
\* constraint.
InsertMovieGenre_NoIgnore(links, movie_id, genre_id) ==
    Append(links, [movie_id |-> movie_id, genre_id |-> genre_id])

\* INSERT OR IGNORE INTO MovieGenres (movie_id, genre_id), UNIQUE(movie_id, genre_id).
InsertOrIgnoreMovieGenre(links, movie_id, genre_id) ==
    IF \E i \in DOMAIN links : links[i].movie_id = movie_id /\ links[i].genre_id = genre_id
    THEN links
    ELSE Append(links, [movie_id |-> movie_id, genre_id |-> genre_id])

\* INSERT OR IGNORE INTO MovieReleaseDates (movie_id, release_date_id),
\* UNIQUE(movie_id, release_date_id).
InsertOrIgnoreMovieReleaseDate(links, movie_id, release_date_id) ==
    IF \E i \in DOMAIN links : links[i].movie_id = movie_id
                               /\ links[i].release_date_id = release_date_id
    THEN links
    ELSE Append(links, [movie_id |-> movie_id, release_date_id |-> release_date_id])

\* The columns id, title of a list of Movies rows.
IdTitle(rows) == [i \in DOMAIN rows |-> [id |-> rows[i].id, title |-> rows[i].title]]

\* SELECT id, title FROM Movies WHERE tmdb_id IS NULL LIMIT ?
SelectTmdb(store, lim) ==
    Limit(IdTitle(SelectSeq(store.Movies, LAMBDA m : m.tmdb_id = NULLINT)), lim)

\* ------------------------------------------------------------------------
\* The keyword classifier (moviecalc.categorize_subject_from_overview)
\* ------------------------------------------------------------------------
UpperCase == "ABCDEFGHIJKLMNOPQRSTUVWXYZ"
LowerCase == "abcdefghijklmnopqrstuvwxyz"

\* str.lower() of one character.
LowerChar(c) ==
    IF \E i \in 1..Len(UpperCase) : SubSeq(UpperCase, i, i) = c
    THEN LET i == CHOOSE j \in 1..Len(UpperCase) : SubSeq(UpperCase, j, j) = c
         IN  SubSeq(LowerCase, i, i)
    ELSE c

RECURSIVE Lower(_)
\* str.lower(): character by character (the two halves are lowered apart, which
\* keeps the evaluation shallow on a long text).
Lower(s) ==
    IF s = "" THEN ""
    ELSE IF Len(s) = 1 THEN LowerChar(s)
    ELSE LET h == Len(s) \div 2
         IN  Lower(SubSeq(s, 1, h)) \o Lower(SubSeq(s, h + 1, Len(s)))

\* word in s (substring containment)
Contains(s, word) ==
    \E i \in 1..(Len(s) - Len(word) + 1) : SubSeq(s, i, i + Len(word) - 1) = word

\* s[:n]
Prefix(s, n) == SubSeq(s, 1, IF Len(s) < n THEN Len(s) ELSE n)

\* any(word in s for word in words)
AnyIn(words, s) == \E word \in words : Contains(s, word)

\* overview_lower[:500]
PronounWindow == 500

MusiciansWords ==
    {"musician", "singer", "vocalist", "composer", "band member",
     "performs", "concert", "album", "rapper", "hip hop", "pianist",
     "piano", "musical family", "selena"}

AthletesWords ==
    {"boxer", "boxing", "football", "basketball", "baseball", "olympic",
     "race car", "racing driver", "quarterback", "athlete", "coach",
     "sport", "mixed martial", "mma", "fighter"}

ScientistsWords ==
    {"scientist", "mathematician", "physicist", "professor", "researcher",
     "theory", "discover", "invention", "academic", "cryptanalyst",
     "oppenheimer", "turing", "atomic bomb", "enigma", "code", "cipher",
     "computation"}

ActivistsWords ==
    {"activist", "civil rights", "protest", "movement", "rights",
     "equality", "discrimination", "segregation", "slavery", "slave",
     "freedom", "abolitionist", "black panthers", "free black man"}

BusinesspeopleWords ==
    {"entrepreneur", "ceo", "founder", "billionaire", "creates a company",
     "starts a business", "facebook", "zuckerberg", "businessman"}

ArtistsWritersWords ==
    {"artist", "painter", "writer", "author", "novel", "book", "paint",
     "artwork", "treasure hunt", "monuments men", "architect"}

PoliticiansWords ==
    {"president", "prime minister", "governor", "senator", "politician",
     "election", "campaign", "congress", "parliament", "fbi agent",
     "deep throat", "watergate"}

CriminalsWords ==
    {"gangster", "mob boss", "mafia", "drug lord", "cartel", "heist",
     "robbery", "outlaw", "infiltrates"}

EntertainersWords ==
    {"actor", "actress", "director", "film producer", "hollywood",
     "performance", "stage"}

MilitaryWords ==
    {"soldier", "general", "navy", "marine", "combat", "colonel",
     "sergeant", "veteran", "squadron", "medic", "prisoner of war", "wwii",
     "world war"}

EventTitleWords ==
    {"disaster", "attack", "operation", "mission", "incident"}

PersonWords ==
    {"he ", "she ", "his ", "her ", "him "}

\* Faulty variants of the cascade, by name: "empty_falls_through" tests the
\* overview for None only, "military_first" checks Military before Scientists,
\* "no_pronoun_guard" drops the pronoun test of Historical Events,
\* "default_unknown" starts from the label Unknown.
categorize_variant(title, overview, genre_names, variant) ==
    IF overview = NULL \/ (overview = "" /\ variant # "empty_falls_through") THEN "Other"
    ELSE
    LET overview_lower == Lower(overview)
        title_lower == Lower(title)
        genres_lower == IF genre_names = NULL \/ genre_names = "" THEN "" ELSE Lower(genre_names)
        military == \/ AnyIn(MilitaryWords, overview_lower)
                    \/ (Contains(overview_lower, "military")
                        /\ ~Contains(overview_lower, "mixed martial"))
    IN  IF AnyIn(MusiciansWords, overview_lower) THEN "Musicians"
        ELSE IF AnyIn(AthletesWords, overview_lower) THEN "Athletes"
        ELSE IF variant = "military_first" /\ military THEN "Military"
        ELSE IF AnyIn(ScientistsWords, overview_lower) THEN "Scientists"
        ELSE IF AnyIn(ActivistsWords, overview_lower) THEN "Activists"
        ELSE IF AnyIn(BusinesspeopleWords, overview_lower) THEN "Businesspeople"
        ELSE IF AnyIn(ArtistsWritersWords, overview_lower) THEN "Artists & Writers"
        ELSE IF AnyIn(PoliticiansWords, overview_lower) THEN "Politicians"
        ELSE IF AnyIn(CriminalsWords, overview_lower) THEN "Criminals"
        ELSE IF AnyIn(EntertainersWords, overview_lower) THEN "Entertainers"
        ELSE IF military THEN "Military"
        ELSE IF \/ AnyIn(EventTitleWords, title_lower)
                \/ /\ (Contains(genres_lower, "war") \/ Contains(genres_lower, "history"))
                   /\ \/ variant = "no_pronoun_guard"
                      \/ ~AnyIn(PersonWords, Prefix(overview_lower, PronounWindow))
             THEN "Historical Events"
        ELSE IF variant = "default_unknown" THEN "Unknown" ELSE "Other"

categorize_EmptyFallsThrough(title, overview, genre_names) ==
    categorize_variant(title, overview, genre_names, "empty_falls_through")

categorize_MilitaryFirst(title, overview, genre_names) ==
    categorize_variant(title, overview, genre_names, "military_first")

categorize_NoPronounGuard(title, overview, genre_names) ==
    categorize_variant(title, overview, genre_names, "no_pronoun_guard")

categorize_DefaultUnknown(title, overview, genre_names) ==
    categorize_variant(title, overview, genre_names, "default_unknown")

\* The cascade of categorize_subject_from_overview; overview and genre_names
\* may be NULL (None).
categorize_subject_from_overview(title, overview, genre_names) ==
    IF overview = NULL \/ overview = "" THEN "Other"
    ELSE
    LET overview_lower == Lower(overview)
        title_lower == Lower(title)
        genres_lower == IF genre_names = NULL \/ genre_names = "" THEN "" ELSE Lower(genre_names)
    IN  IF AnyIn(MusiciansWords, overview_lower) THEN "Musicians"
        ELSE IF AnyIn(AthletesWords, overview_lower) THEN "Athletes"
        ELSE IF AnyIn(ScientistsWords, overview_lower) THEN "Scientists"
        ELSE IF AnyIn(ActivistsWords, overview_lower) THEN "Activists"
        ELSE IF AnyIn(BusinesspeopleWords, overview_lower) THEN "Businesspeople"
        ELSE IF AnyIn(ArtistsWritersWords, overview_lower) THEN "Artists & Writers"
        ELSE IF AnyIn(PoliticiansWords, overview_lower) THEN "Politicians"
        ELSE IF AnyIn(CriminalsWords, overview_lower) THEN "Criminals"
        ELSE IF AnyIn(EntertainersWords, overview_lower) THEN "Entertainers"
        ELSE IF \/ AnyIn(MilitaryWords, overview_lower)
                \/ (Contains(overview_lower, "military")
                    /\ ~Contains(overview_lower, "mixed martial"))
             THEN "Military"
        ELSE IF \/ AnyIn(EventTitleWords, title_lower)
                \/ /\ (Contains(genres_lower, "war") \/ Contains(genres_lower, "history"))
                   /\ ~AnyIn(PersonWords, Prefix(overview_lower, PronounWindow))
             THEN "Historical Events"
        ELSE "Other"

\* ------------------------------------------------------------------------
\* Store operations of the plot stage and the category stage
\* ------------------------------------------------------------------------
\* get_wikipedia_plot: the plot text, or NULL for the None it returns when
\* nothing is found and when a request raises (its except clause).
get_wikipedia_plot(title) ==
    LET r == WikipediaResponse(title)
    IN  IF r.status = "raises" THEN NULL ELSE r.plot

\* time.sleep(...) as an entry of the log of an iteration.
Pause == "sleep"

\* The requests of the two stages as entries of the log.
ExternalCalls == {"search/movie", "movie/{id}", "page/html", "w/api.php"}

\* The pauses and requests of one iteration of the loop of populate_tmdb_data:
\* the search, then, on a match, time.sleep(0.25) and the details.
TmdbIo(title) ==
    IF tmdb_search_movie(title) = NULLINT THEN <<"search/movie">>
    ELSE <<"search/movie", Pause, "movie/{id}">>

RECURSIVE PlotRequests(_)
\* get_wikipedia_plot and search_wikipedia call time.sleep(0.1) right before
\* each requests.get.
PlotRequests(requests) ==
    IF requests = <<>> THEN <<>>
    ELSE <<Pause, Head(requests)>> \o PlotRequests(Tail(requests))

\* The pauses and requests of one call of get_wikipedia_plot.
PlotIo(title) == PlotRequests(WikipediaResponse(title).requests)

\* A faulty insert into a Plots table without the UNIQUE constraint on
\* movie_id: nothing is replaced.
InsertPlot_NoUnique(plots, movie_id, plot_summary) ==
    Append(plots, [movie_id |-> movie_id, plot_summary |-> plot_summary])

\* INSERT OR REPLACE INTO Plots (movie_id, plot_summary): movie_id is UNIQUE,
\* so a row of the same movie is deleted and the new row gets a fresh rowid
\* (the rowid itself is not kept: it grows with every replacement).
InsertOrReplacePlot(plots, movie_id, plot_summary) ==
    Append(SelectSeq(plots, LAMBDA p : p.movie_id # movie_id),
           [movie_id |-> movie_id, plot_summary |-> plot_summary])

\* A faulty selection of the plot stage that leaves out every movie with a
\* Plots row, NULL or not (id NOT IN (SELECT movie_id FROM Plots)).
SelectPlots_AnyRow(store, lim) ==
    Limit(IdTitle(SelectSeq(store.Movies,
                            LAMBDA m : ~\E i \in DOMAIN store.Plots :
                                          store.Plots[i].movie_id = m.id)), lim)

\* SELECT id, title FROM Movies WHERE id NOT IN
\*   (SELECT movie_id FROM Plots WHERE plot_summary IS NOT NULL) LIMIT ?
SelectPlots(store, lim) ==
    Limit(IdTitle(SelectSeq(store.Movies,
                            LAMBDA m : ~\E i \in DOMAIN store.Plots :
                                          /\ store.Plots[i].plot_summary # NULL
                                          /\ store.Plots[i].movie_id = m.id)), lim)

\* A plain INSERT INTO Categories (name): name is UNIQUE NOT NULL.
InsertCategory(categories, category_name) ==
    IF \E i \in DOMAIN categories : categories[i].name = category_name
    THEN [err |-> TRUE, tbl |-> categories, id |-> 0]
    ELSE [err |-> FALSE,
          tbl |-> Append(categories, [id |-> Len(categories) + 1, name |-> category_name]),
          id |-> Len(categories) + 1]

\* insert_or_get_category: SELECT id WHERE name = ?, else INSERT and commit.
insert_or_get_category(categories, category_name) ==
    IF \E i \in DOMAIN categories : categories[i].name = category_name
    THEN [err |-> FALSE, tbl |-> categories, inserted |-> FALSE,
          id |-> categories[CHOOSE i \in DOMAIN categories :
                                categories[i].name = category_name].id]
    ELSE LET r == InsertCategory(categories, category_name)
         IN  [err |-> r.err, tbl |-> r.tbl, inserted |-> ~r.err, id |-> r.id]

\* INSERT OR IGNORE INTO MovieCategories (movie_id, category_id),
\* UNIQUE(movie_id, category_id).
InsertOrIgnoreMovieCategory(links, movie_id, category_id) ==
    IF \E i \in DOMAIN links : links[i].movie_id = movie_id
                               /\ links[i].category_id = category_id
    THEN links
    ELSE Append(links, [movie_id |-> movie_id, category_id |-> category_id])

RECURSIVE Join(_, _)
\* sep.join(names)
Join(names, sep) ==
    IF names = <<>> THEN ""
    ELSE IF Len(names) = 1 THEN names[1]
    ELSE names[1] \o sep \o Join(Tail(names), sep)

\* GROUP_CONCAT(g.name, ', ') over the genres linked to a movie (NULL when
\* the LEFT JOINs find none), in the order of the (movie_id, genre_id) index.
GenreNames(store, movie_id) ==
    LET linked == SelectSeq(store.Genres,
                            LAMBDA g : \E i \in DOMAIN store.MovieGenres :
                                          /\ store.MovieGenres[i].movie_id = movie_id
                                          /\ store.MovieGenres[i].genre_id = g.id)
    IN  IF linked = <<>> THEN NULL
        ELSE Join([i \in DOMAIN linked |-> linked[i].name], ", ")

\* A faulty selection of the category stage without its NOT IN clause: every
\* movie with an overview, categorized or not.
SelectCategories_All(store, lim) ==
    LET todo == SelectSeq(store.Movies, LAMBDA m : m.overview # NULL)
    IN  Limit([i \in DOMAIN todo |->
                 [id |-> todo[i].id, title |-> todo[i].title,
                  overview |-> todo[i].overview,
                  genre_names |-> GenreNames(store, todo[i].id)]], lim)

\* The selection of populate_movie_categories: movies with an overview and no
\* MovieCategories row, grouped by movie, LIMIT ?.
SelectCategories(store, lim) ==
    LET todo == SelectSeq(store.Movies,
                          LAMBDA m : /\ m.overview # NULL
                                     /\ ~\E i \in DOMAIN store.MovieCategories :
                                           store.MovieCategories[i].movie_id = m.id)
    IN  Limit([i \in DOMAIN todo |->
                 [id |-> todo[i].id, title |-> todo[i].title,
                  overview |-> todo[i].overview,
                  genre_names |-> GenreNames(store, todo[i].id)]], lim)

\* The selection of a stage, and how many entities it matches without LIMIT.
Select(name, store, lim) ==
    CASE name = "tmdb"  -> SelectTmdb(store, lim)
      [] name = "plots" -> SelectPlots(store, lim)
      [] name = "cat"   -> SelectCategories(store, lim)

Unprocessed(name, store) == Len(Select(name, store, Len(store.Movies)))

\* ------------------------------------------------------------------------
\* The classifier on the inputs the category stage can hand it, evaluated
\* once (the stage applies the classifier to rows of the store only).
\* ------------------------------------------------------------------------
\* Ids the search can return, overviews and genre names the details can hold.
TmdbIds == UNION {Range(SearchResponse(t)) : t \in Titles}
Overviews == {Get(DetailsResponse(i), "overview", NULL) : i \in TmdbIds}
GenreNameSet == UNION {Range(Get(DetailsResponse(i), "genres", <<>>)) : i \in TmdbIds}

\* Every value GROUP_CONCAT can produce from those genre names.
GenreNameStrings ==
    {NULL} \cup
    {Join(names, ", ") :
        names \in {q \in UNION {[1..n -> GenreNameSet] : n \in 1..Cardinality(GenreNameSet)} :
                     NoDuplicates(q)}}

\* categorize_subject_from_overview as a table over those inputs.
CategoryOf ==
    [title \in Titles, overview \in Overviews, genre_names \in GenreNameStrings |->
        categorize_subject_from_overview(title, overview, genre_names)]

\* ------------------------------------------------------------------------
\* The aggregator (moviecalc.calculate_statistics).  The result of a query is
\* kept as the set of its rows, a row of a join being named by the rowids it
\* joins; an average is kept exact, as numerator and denominator.
\* ------------------------------------------------------------------------
\* / 1000000.0
Million == 1000000

\* The report when calculate_statistics did not run.
NoReport == [written |-> FALSE]

\* MovieCategories mc JOIN Categories c ON mc.category_id = c.id
JoinCategories(store) ==
    {r \in (DOMAIN store.MovieCategories) \X (DOMAIN store.Categories) :
        store.MovieCategories[r[1]].category_id = store.Categories[r[2]].id}

\* ... JOIN MovieGenres mg ON mc.movie_id = mg.movie_id
\*     JOIN Genres g ON mg.genre_id = g.id
JoinGenres(store) ==
    {r \in JoinCategories(store) \X (DOMAIN store.MovieGenres) \X (DOMAIN store.Genres) :
        /\ store.MovieCategories[r[1][1]].movie_id = store.MovieGenres[r[2]].movie_id
        /\ store.MovieGenres[r[2]].genre_id = store.Genres[r[3]].id}

\* A faulty revenue join whose WHERE keeps every row with a revenue, zero
\* included (WHERE m.revenue IS NOT NULL).
JoinRevenue_ZeroIncluded(store) ==
    {r \in JoinCategories(store) \X (DOMAIN store.Movies) :
        /\ store.MovieCategories[r[1][1]].movie_id = store.Movies[r[2]].id
        /\ store.Movies[r[2]].revenue # NULLINT}

\* ... JOIN Movies m ON mc.movie_id = m.id WHERE m.revenue > 0 (a NULL
\* revenue does not satisfy the comparison).
JoinRevenue(store) ==
    {r \in JoinCategories(store) \X (DOMAIN store.Movies) :
        /\ store.MovieCategories[r[1][1]].movie_id = store.Movies[r[2]].id
        /\ store.Movies[r[2]].revenue # NULLINT
        /\ store.Movies[r[2]].revenue > 0}

RECURSIVE SumRevenue(_, _)
\* SUM(m.revenue) over rows of JoinRevenue.
SumRevenue(store, rows) ==
    IF rows = {} THEN 0
    ELSE LET r == CHOOSE x \in rows : TRUE
         IN  store.Movies[r[2]].revenue + SumRevenue(store, rows \ {r})

\* f"{v:.2f}" of the value num / den, in hundredths; den is a multiple of 100
\* (a tie, which no binary float holds exactly, goes to the even neighbour).
Format2f(num, den) ==
    LET d == den \div 100
        q == num \div d
        r == num % d
    IN  IF 2 * r > d \/ (2 * r = d /\ q % 2 = 1) THEN q + 1 ELSE q

\* Query 1: SELECT c.name, COUNT(*) ... GROUP BY c.name
CategoryCounts(store) ==
    LET rows == JoinCategories(store)
    IN  {[category |-> name,
          movie_count |-> Cardinality({r \in rows : store.Categories[r[2]].name = name})] :
            name \in {store.Categories[r[2]].name : r \in rows}}

\* A faulty genre_counts that assigns 1 to a bucket on every row instead of
\* incrementing it.
GenreCounts_SetToOne(store) ==
    {[category |-> k[1], genre |-> k[2], count |-> 1] :
        k \in {<<store.Categories[r[1][2]].name, store.Genres[r[3]].name>> :
                 r \in JoinGenres(store)}}

\* Query 2 and the genre_counts dictionary: one increment per joined row.
GenreCounts(store) ==
    LET rows == JoinGenres(store)
    IN  {[category |-> k[1], genre |-> k[2],
          count |-> Cardinality({r \in rows : /\ store.Categories[r[1][2]].name = k[1]
                                              /\ store.Genres[r[3]].name = k[2]})] :
            k \in {<<store.Categories[r[1][2]].name, store.Genres[r[3]].name>> : r \in rows}}

\* Query 3: SELECT c.name, AVG(m.revenue) / 1000000.0, COUNT(*) ... GROUP BY
\* c.name, and the figure each report line shows.
RevenueStats(store) ==
    LET rows == JoinRevenue(store)
    IN  {LET group == {r \in rows : store.Categories[r[1][2]].name = name}
             total == SumRevenue(store, group)
             n == Cardinality(group)
         IN  [category |-> name,
              avg_revenue_millions |-> [num |-> total, den |-> n * Million],
              shown |-> Format2f(total, n * Million),
              movie_count |-> n] :
            name \in {store.Categories[r[1][2]].name : r \in rows}}

\* Query 4: movies with a revenue and a release_date, LEFT JOINed to their
\* category (0 names the row of NULLs of an unmatched LEFT JOIN).
MoviesByYear(store) ==
    LET dated == {m \in DOMAIN store.Movies :
                    /\ store.Movies[m].revenue # NULLINT
                    /\ store.Movies[m].revenue > 0
                    /\ store.Movies[m].release_date # NULL
                    /\ store.Movies[m].release_date # ""}
        matches(m) == {r \in JoinCategories(store) :
                         store.MovieCategories[r[1]].movie_id = store.Movies[m].id}
    IN  {[title |-> store.Movies[x[1]].title,
          year |-> Prefix(store.Movies[x[1]].release_date, 4),
          revenue_millions |-> [num |-> store.Movies[x[1]].revenue, den |-> Million],
          category |-> IF x[2] = 0 THEN NULL ELSE store.Categories[x[2]].name] :
            x \in UNION {IF matches(m) = {} THEN {<<m, 0>>}
                         ELSE {<<m, r[2]>> : r \in matches(m)} : m \in dated}}

\* calculate_statistics: the content of calculations_output.txt.  It issues
\* SELECT statements only.
calculate_statistics(store) ==
    [written |-> TRUE,
     total_movies |-> Cardinality({store.MovieCategories[i].movie_id :
                                      i \in DOMAIN store.MovieCategories}),
     category_counts |-> CategoryCounts(store),
     genre_counts |-> GenreCounts(store),
     revenue_stats |-> RevenueStats(store),
     movies_by_year |-> MoviesByYear(store)]

\* moviecalc.main after populate_movie_categories: the statistics run when
\* at least one movie is categorized.
MainReport(store) ==
    IF store.MovieCategories # <<>> THEN calculate_statistics(store) ELSE NoReport

\* No direct call of the classifier has been made.
NoCall == [fn |-> "none"]

\* ------------------------------------------------------------------------
\* State
\* ------------------------------------------------------------------------
VARIABLES
    disk,        \* the committed store (movies.db)
    db,          \* the store as the open connection sees it
    stage,       \* the script that is running: "idle", "tmdb", "plots", "cat"
    pc,          \* position inside an iteration of the tmdb loop
    limit,       \* the limit argument of the run
    batch,       \* movies_to_process of the run
    pos,         \* index in batch of the entity the loop is at
    details,     \* tmdb stage: details of the entity in hand
    gi,          \* tmdb stage: index of the next entry of details' genres
    processed,   \* tmdb stage: the processed counter
    successful,  \* plots stage: the successful counter
    outcome,     \* how the latest run ended: "none" (running), "done", "killed",
                 \* or the exception that ended it
    last,        \* the script that ran latest: "none", "ingest", "tmdb", "plots", "cat"
    n0,          \* how many entities the stage's selection matched without its LIMIT
    report,      \* what calculate_statistics wrote in the latest run of moviecalc
    call,        \* a function called directly: its arguments and, once it has
                 \* returned, its result
    io           \* the pauses and requests of the latest loop iteration of the
                 \* run in progress, in the order they were issued

vars == <<disk, db, stage, pc, limit, batch, pos, details, gi, processed,
          successful, outcome, last, n0, report, call, io>>

\* details when no entity is in hand.
NoDetails == [none |-> TRUE]

\* The entities of the current run whose loop iteration has completed.
Handled == SubSeq(batch, 1, pos - 1)

Init ==
    /\ disk = EmptyStore
    /\ db = EmptyStore
    /\ stage = "idle"
    /\ pc = "none"
    /\ limit = 0
    /\ batch = <<>>
    /\ pos = 1
    /\ details = NoDetails
    /\ gi = 1
    /\ processed = 0
    /\ successful = 0
    /\ outcome = "none"
    /\ last = "none"
    /\ n0 = 0
    /\ report = NoReport
    /\ call = NoCall
    /\ io = <<>>

\* The title lists the scraper hands to populate_movies_table.
TitleLists == {<<>>} \cup {<<t>> : t \in Titles} \cup {<<t, u>> : t, u \in Titles}

\* importmovielist.main: populate_movies_table(movie_titles) inserts every
\* title with INSERT OR IGNORE and commits once after the loop.
Ingest(movie_titles) ==
    /\ stage = "idle"
    /\ Len(InsertTitles(db.Movies, movie_titles)) <= MaxMovies
    /\ db' = [db EXCEPT !.Movies = InsertTitles(db.Movies, movie_titles)]
    /\ disk' = db'
    /\ last' = "ingest"
    /\ outcome' = "done"
    /\ limit' = 0
    /\ batch' = <<>>
    /\ pos' = 1
    /\ processed' = 0
    /\ successful' = 0
    /\ gi' = 1
    /\ n0' = 0
    /\ report' = NoReport
    /\ UNCHANGED <<io, call, stage, pc, details>>

\* The process ends by an uncaught exception of the given kind: the open
\* transaction is lost.
Raise(exception) ==
    /\ db' = disk
    /\ stage' = "idle"
    /\ pc' = "none"
    /\ details' = NoDetails
    /\ outcome' = exception
    /\ limit' = 0
    /\ batch' = <<>>
    /\ pos' = 1
    /\ gi' = 1
    /\ processed' = 0
    /\ successful' = 0
    /\ n0' = 0
    /\ report' = NoReport
    /\ io' = <<>>
    /\ UNCHANGED <<call, disk, last>>

\* tmdbdata.main: populate_tmdb_data(limit) up to the start of its loop.
TmdbStart(lim) ==
    /\ stage = "idle"
    /\ last' = "tmdb"
    /\ limit' = lim
    /\ batch' = SelectTmdb(db, lim)
    /\ n0' = Unprocessed("tmdb", db)
    /\ pos' = 1
    /\ processed' = 0
    /\ successful' = 0
    /\ gi' = 1
    /\ details' = NoDetails
    /\ IF SelectTmdb(db, lim) = <<>>
       THEN /\ stage' = "idle" /\ pc' = "none" /\ outcome' = "done"
       ELSE /\ stage' = "tmdb" /\ pc' = "search" /\ outcome' = "none"
    /\ report' = NoReport
    /\ io' = <<>>
    /\ UNCHANGED <<call, disk, db>>

\* One iteration of the loop up to the UPDATE of Movies, when both requests
\* complete: search, then either continue (no match), or fetch the details
\* and update the row.
TmdbSearch ==
    /\ stage = "tmdb" /\ pc = "search" /\ pos <= Len(batch)
    /\ LET movie == batch[pos]
           tmdb_id == tmdb_search_movie(movie.title)
           d == tmdb_get_movie_details(tmdb_id)
           u == UpdateMovie(db.Movies, movie.id, Get(d, "id", NULLINT),
                            Get(d, "revenue", 0), Get(d, "overview", NULL))
       IN  IF tmdb_id = NULLINT
           THEN /\ pos' = pos + 1
                /\ io' = TmdbIo(movie.title)
                /\ UNCHANGED <<call, report, disk, db, stage, pc, limit, batch, details, gi,
                               processed, successful, outcome, last, n0>>
           ELSE IF u.err THEN Raise("IntegrityError")
           ELSE /\ db' = [db EXCEPT !.Movies = u.tbl]
                /\ details' = d
                /\ gi' = 1
                /\ pc' = "genres"
                /\ io' = TmdbIo(movie.title)
                /\ UNCHANGED <<call, report, disk, stage, limit, batch, pos, processed,
                               successful, outcome, last, n0>>

\* The same iteration when requests.get or response.json() raises in
\* tmdb_search_movie or tmdb_get_movie_details: nothing catches it.
TmdbRequestFails ==
    /\ stage = "tmdb" /\ pc = "search" /\ pos <= Len(batch)
    /\ Raise("RequestException")

\* One iteration of the loop over details' genres: insert_or_get_genre (which
\* commits when it inserts), then the INSERT OR IGNORE of the link.
TmdbGenre ==
    /\ stage = "tmdb" /\ pc = "genres"
    /\ gi <= Len(Get(details, "genres", <<>>))
    /\ LET movie == batch[pos]
           r == insert_or_get_genre(db.Genres, details.genres[gi])
           withGenre == [db EXCEPT !.Genres = r.tbl]
       IN  IF r.err THEN Raise("IntegrityError")
           ELSE /\ disk' = IF r.inserted THEN withGenre ELSE disk
                /\ db' = [withGenre EXCEPT !.MovieGenres =
                            InsertOrIgnoreMovieGenre(db.MovieGenres, movie.id, r.id)]
                /\ gi' = gi + 1
                /\ UNCHANGED <<io, call, report, stage, pc, limit, batch, pos, details, processed,
                               successful, outcome, last, n0>>

\* After the genres: the release date, when the body has a non-empty one.
TmdbReleaseDate ==
    /\ stage = "tmdb" /\ pc = "genres"
    /\ gi > Len(Get(details, "genres", <<>>))
    /\ LET movie == batch[pos]
           release_date == Get(details, "release_date", NULL)
           r == insert_or_get_release_date(db.ReleaseDates, release_date)
           withDate == [db EXCEPT !.ReleaseDates = r.tbl]
       IN  IF release_date = NULL \/ release_date = ""
           THEN /\ pc' = "commit"
                /\ UNCHANGED <<io, call, report, disk, db, stage, limit, batch, pos, details, gi,
                               processed, successful, outcome, last, n0>>
           ELSE IF r.err THEN Raise("IntegrityError")
           ELSE /\ disk' = IF r.inserted THEN withDate ELSE disk
                /\ db' = [withDate EXCEPT !.MovieReleaseDates =
                            InsertOrIgnoreMovieReleaseDate(db.MovieReleaseDates,
                                                           movie.id, r.id)]
                /\ pc' = "commit"
                /\ UNCHANGED <<io, call, report, stage, limit, batch, pos, details, gi, processed,
                               successful, outcome, last, n0>>

\* The end of an iteration: conn.commit() and processed += 1.
TmdbCommit ==
    /\ stage = "tmdb" /\ pc = "commit"
    /\ disk' = db
    /\ processed' = processed + 1
    /\ pos' = pos + 1
    /\ pc' = "search"
    /\ details' = NoDetails
    /\ UNCHANGED <<io, call, report, db, stage, limit, batch, gi, successful, outcome, last, n0>>

\* After the loop: the report; main closes the connection.
TmdbEnd ==
    /\ stage = "tmdb" /\ pc = "search" /\ pos > Len(batch)
    /\ stage' = "idle"
    /\ pc' = "none"
    /\ outcome' = "done"
    /\ db' = disk
    /\ io' = <<>>
    /\ UNCHANGED <<call, report, disk, limit, batch, pos, details, gi, processed, successful,
                   last, n0>>

\* importplots.main: populate_plots_table(limit) up to the start of its loop.
PlotsStart(lim) ==
    /\ stage = "idle"
    /\ last' = "plots"
    /\ limit' = lim
    /\ batch' = SelectPlots(db, lim)
    /\ n0' = Unprocessed("plots", db)
    /\ pos' = 1
    /\ successful' = 0
    /\ processed' = 0
    /\ gi' = 1
    /\ IF SelectPlots(db, lim) = <<>>
       THEN /\ stage' = "idle" /\ outcome' = "done"
       ELSE /\ stage' = "plots" /\ outcome' = "none"
    /\ report' = NoReport
    /\ io' = <<>>
    /\ UNCHANGED <<call, disk, db, pc, details>>

\* One iteration of the loop of populate_plots_table: fetch, then INSERT OR
\* REPLACE of the text or of NULL.  Nothing is committed here.
PlotsStep ==
    /\ stage = "plots" /\ pos <= Len(batch)
    /\ LET movie == batch[pos]
           plot == get_wikipedia_plot(movie.title)
       IN  /\ db' = [db EXCEPT !.Plots = InsertOrReplacePlot(db.Plots, movie.id, plot)]
           /\ successful' = IF plot # NULL /\ plot # "" THEN successful + 1 ELSE successful
    /\ pos' = pos + 1
    /\ io' = PlotIo(batch[pos].title)
    /\ UNCHANGED <<call, report, disk, stage, pc, limit, batch, details, gi, processed,
                   outcome, last, n0>>

\* After the loop: the one conn.commit() of the run, then the report.
PlotsEnd ==
    /\ stage = "plots" /\ pos > Len(batch)
    /\ disk' = db
    /\ stage' = "idle"
    /\ outcome' = "done"
    /\ io' = <<>>
    /\ UNCHANGED <<call, report, db, pc, limit, batch, pos, details, gi, processed, successful,
                   last, n0>>

\* moviecalc.main: populate_movie_categories(limit) up to the start of its loop;
\* when nothing is selected the function returns and main goes on to the
\* statistics.
CategoriesStart(lim) ==
    /\ stage = "idle"
    /\ last' = "cat"
    /\ limit' = lim
    /\ batch' = SelectCategories(db, lim)
    /\ n0' = Unprocessed("cat", db)
    /\ pos' = 1
    /\ successful' = 0
    /\ processed' = 0
    /\ gi' = 1
    /\ IF SelectCategories(db, lim) = <<>>
       THEN /\ stage' = "idle" /\ outcome' = "done" /\ report' = MainReport(db)
       ELSE /\ stage' = "cat" /\ outcome' = "none" /\ report' = NoReport
    /\ io' = <<>>
    /\ UNCHANGED <<call, disk, db, pc, details>>

\* One iteration of the loop of populate_movie_categories: classify,
\* insert_or_get_category (which commits when it inserts), then the INSERT
\* OR IGNORE of the link.
CategoriesStep ==
    /\ stage = "cat" /\ pos <= Len(batch)
    /\ LET movie == batch[pos]
           category_name == CategoryOf[movie.title, movie.overview, movie.genre_names]
           r == insert_or_get_category(db.Categories, category_name)
           withCategory == [db EXCEPT !.Categories = r.tbl]
       IN  IF r.err THEN Raise("IntegrityError")
           ELSE /\ disk' = IF r.inserted THEN withCategory ELSE disk
                /\ db' = [withCategory EXCEPT !.MovieCategories =
                            InsertOrIgnoreMovieCategory(db.MovieCategories, movie.id, r.id)]
                /\ pos' = pos + 1
                /\ UNCHANGED <<io, call, report, stage, pc, limit, batch, details, gi, processed,
                               successful, outcome, last, n0>>

\* A faulty end of the category run without its conn.commit(): what the run
\* wrote since the latest commit is lost when main closes the connection.
CategoriesEnd_NoCommit ==
    /\ stage = "cat" /\ pos > Len(batch)
    /\ db' = disk
    /\ stage' = "idle"
    /\ outcome' = "done"
    /\ report' = MainReport(db)
    /\ UNCHANGED <<io, call, disk, pc, limit, batch, pos, details, gi, processed, successful,
                   last, n0>>

\* After the loop: the one conn.commit() of the run and the progress report;
\* main then runs the statistics and closes the connection.
CategoriesEnd ==
    /\ stage = "cat" /\ pos > Len(batch)
    /\ disk' = db
    /\ stage' = "idle"
    /\ outcome' = "done"
    /\ report' = MainReport(db)
    /\ UNCHANGED <<io, call, db, pc, limit, batch, pos, details, gi, processed, successful,
                   last, n0>>

\* The process is terminated while a stage runs: the open transaction is lost.
Kill ==
    /\ stage # "idle"
    /\ Raise("killed")

Next ==
    \/ \E movie_titles \in TitleLists : Ingest(movie_titles)
    \/ \E lim \in 1..MaxLimit : TmdbStart(lim)
    \/ TmdbSearch
    \/ TmdbRequestFails
    \/ TmdbGenre
    \/ TmdbReleaseDate
    \/ TmdbCommit
    \/ TmdbEnd
    \/ \E lim \in 1..MaxLimit : PlotsStart(lim)
    \/ PlotsStep
    \/ PlotsEnd
    \/ \E lim \in 1..MaxLimit : CategoriesStart(lim)
    \/ CategoriesStep
    \/ CategoriesEnd
    \/ Kill

Spec == Init /\ [][Next]_vars

\* ------------------------------------------------------------------------
\* The classifier called directly: categorize_subject_from_overview(title,
\* overview, genre_names) on arguments drawn from the sets below.
\* ------------------------------------------------------------------------
\* Ten characters, none of them part of a keyword or of a pronoun marker.
Pad10 == "zzzzzzzzz "
Pad100 == Pad10 \o Pad10 \o Pad10 \o Pad10 \o Pad10 \o Pad10 \o Pad10 \o Pad10 \o Pad10 \o Pad10
\* 496 characters: a following "she " ends at character 500.
Pad496 == Pad100 \o Pad100 \o Pad100 \o Pad100 \o SubSeq(Pad100, 1, 96)

ClassifyTitles == {"Ali", "Operation Anthropoid", "The ATTACK"}

ClassifyOverviews ==
    {NULL, "",
     "A Professor and a soldier.",
     "A massive explosion destroys the facility during a classified operation.",
     "She leads the operation to rescue hostages.",
     "She leads a rescue.",
     "Explosion at a plant.",
     "The boxer Ali becomes a Professor.",
     "A singer and a gangster.",
     "A military convoy.",
     "Military training, not mixed martial arts.",
     Pad496 \o "she left.",
     Pad496 \o "zshe left."}

ClassifyGenres == {NULL, "Drama", "Drama, History", "War"}

ClassifyInit ==
    /\ Init!1 /\ Init!2 /\ Init!3 /\ Init!4 /\ Init!5 /\ Init!6 /\ Init!7
    /\ Init!8 /\ Init!9 /\ Init!10 /\ Init!11 /\ Init!12 /\ Init!13 /\ Init!14
    /\ Init!15 /\ Init!17
    /\ call \in [fn : {"categorize_subject_from_overview"}, title : ClassifyTitles,
                 overview : ClassifyOverviews, genre_names : ClassifyGenres,
                 returned : {FALSE}, category : {NULL}]

\* The call returns.
Classify ==
    /\ call.fn = "categorize_subject_from_overview"
    /\ ~call.returned
    /\ call' = [call EXCEPT !.returned = TRUE,
                            !.category = categorize_subject_from_overview(
                                             call.title, call.overview, call.genre_names)]
    /\ UNCHANGED <<disk, db, stage, pc, limit, batch, pos, details, gi, processed,
                   successful, outcome, last, n0, report, io>>

ClassifyNext == Classify

ClassifySpec == ClassifyInit /\ [][ClassifyNext]_vars

\* ------------------------------------------------------------------------
\* The aggregator called on a store the pipeline has filled: every movie was
\* ingested, answered by TMDB with a revenue, an overview and genres drawn
\* from the sets below, and categorized when it has an overview.
\* ------------------------------------------------------------------------
\* Titles of the movies, in rowid order.
StatTitles == <<"Ali", "Ghost", "Lost Reel", "Ali 2001">>

\* What a details body can hold for a movie.
StatAnswers ==
    [revenue : {NULLINT, 0, 50000000, 100000000},
     overview : {NULL, "A boxer wins.", "A singer performs."},
     genres : {<<>>, <<"Drama">>, <<"Drama", "History">>}]

RECURSIVE LinkGenres(_, _, _)
\* The loop of populate_tmdb_data over the genres of one movie.
LinkGenres(store, movie_id, genres) ==
    IF genres = <<>> THEN store
    ELSE LET r == insert_or_get_genre(store.Genres, Head(genres))
         IN  LinkGenres([store EXCEPT !.Genres = r.tbl,
                                      !.MovieGenres = InsertOrIgnoreMovieGenre(
                                                          store.MovieGenres, movie_id, r.id)],
                        movie_id, Tail(genres))

\* The store after ingestion, populate_tmdb_data and populate_movie_categories
\* have handled one more movie with the given answer.
AddMovie(store, answer) ==
    LET movie_id == Len(store.Movies) + 1
        title == StatTitles[movie_id]
        ingested == [store EXCEPT !.Movies = InsertOrIgnoreMovie(store.Movies, title)]
        updated == [ingested EXCEPT !.Movies =
                       UpdateMovie(ingested.Movies, movie_id, movie_id, answer.revenue,
                                   answer.overview).tbl]
        linked == LinkGenres(updated, movie_id, answer.genres)
        category_name == categorize_subject_from_overview(
                             title, answer.overview, GenreNames(linked, movie_id))
        c == insert_or_get_category(linked.Categories, category_name)
    IN  IF answer.overview = NULL THEN linked
        ELSE [linked EXCEPT !.Categories = c.tbl,
                            !.MovieCategories = InsertOrIgnoreMovieCategory(
                                                    linked.MovieCategories, movie_id, c.id)]

RECURSIVE FilledStore(_)
FilledStore(answers) ==
    IF answers = <<>> THEN EmptyStore
    ELSE AddMovie(FilledStore(SubSeq(answers, 1, Len(answers) - 1)), answers[Len(answers)])

StatsInit ==
    /\ \E n \in 0..MaxMovies : \E answers \in [1..n -> StatAnswers] :
          /\ disk = FilledStore(answers)
          /\ db = disk
    /\ Init!3 /\ Init!4 /\ Init!5 /\ Init!6 /\ Init!7 /\ Init!8 /\ Init!9
    /\ Init!10 /\ Init!11 /\ Init!12 /\ Init!13 /\ Init!14 /\ Init!15 /\ Init!16
    /\ Init!17

\* A faulty calculate_statistics that first replaces NULL revenues by 0 in the
\* store (UPDATE Movies SET revenue = 0 WHERE revenue IS NULL, committed).
CalculateStatistics_NormalisesRevenue ==
    /\ stage = "idle"
    /\ db' = [db EXCEPT !.Movies =
                 [i \in DOMAIN db.Movies |->
                    IF db.Movies[i].revenue = NULLINT
                    THEN [db.Movies[i] EXCEPT !.revenue = 0] ELSE db.Movies[i]]]
    /\ disk' = db'
    /\ report' = calculate_statistics(db')
    /\ UNCHANGED <<stage, pc, limit, batch, pos, details, gi, processed,
                   successful, outcome, last, n0, call, io>>

\* calculate_statistics(cur, conn) on the store as it is.
CalculateStatistics ==
    /\ stage = "idle"
    /\ report' = calculate_statistics(db)
    /\ UNCHANGED <<disk, db, stage, pc, limit, batch, pos, details, gi, processed,
                   successful, outcome, last, n0, call, io>>

StatsNext == CalculateStatistics

StatsSpec == StatsInit /\ [][StatsNext]_vars

\* ------------------------------------------------------------------------
\* The metadata stage run again and again: tmdbdata.main calling
\* populate_tmdb_data with one limit, over one set of ingested movies, every
\* request completing with the fixed answers.  A run is started whenever the
\* previous one has ended, and a run that has started goes on.
\* ------------------------------------------------------------------------
SaturationInit ==
    /\ \E movie_titles \in TitleLists :
          /\ disk = [EmptyStore EXCEPT !.Movies = InsertTitles(<<>>, movie_titles)]
          /\ db = disk
    /\ Init!3 /\ Init!4 /\ Init!5 /\ Init!6 /\ Init!7 /\ Init!8 /\ Init!9
    /\ Init!10 /\ Init!11 /\ Init!12 /\ Init!13 /\ Init!14 /\ Init!15 /\ Init!17
    /\ call \in [fn : {"populate_tmdb_data"}, limit : 1..MaxLimit]

\* The next invocation, with the same limit.
TmdbRerun ==
    /\ call.fn = "populate_tmdb_data"
    /\ TmdbStart(call.limit)

SaturationNext ==
    \/ TmdbRerun
    \/ TmdbSearch
    \/ TmdbGenre
    \/ TmdbReleaseDate
    \/ TmdbCommit
    \/ TmdbEnd

SaturationSpec == SaturationInit /\ [][SaturationNext]_vars /\ WF_vars(SaturationNext)

\* ------------------------------------------------------------------------
\* Two invocations racing on one dimension value: each runs insert_or_get_genre,
\* insert_or_get_release_date or insert_or_get_category with the same value on
\* its own connection to movies.db.  The SELECT and the INSERT with its commit
\* are separate steps of an invocation, and the steps of the two interleave.
\* ------------------------------------------------------------------------
Invocations == {1, 2}

RaceTables == {"Genres", "ReleaseDates", "Categories"}

\* The column that holds the value of a dimension table.
ValueColumn(table) == IF table = "ReleaseDates" THEN "date" ELSE "name"

\* The values the invocations can ask for.
RaceValues(table) ==
    CASE table = "Genres"       -> {"Drama", "History", "War"}
      [] table = "ReleaseDates" -> {"2001-12-25", "2016-08-12"}
      [] table = "Categories"   -> {"Athletes", "Historical Events", "Other"}

\* The plain INSERT of the table's insert_or_get function.
RaceInsertRow(table, rows, value) ==
    CASE table = "Genres"       -> InsertGenre(rows, value)
      [] table = "ReleaseDates" -> InsertReleaseDate(rows, value)
      [] table = "Categories"   -> InsertCategory(rows, value)

\* The table is empty or holds one committed value when the invocations start.
RaceInit ==
    /\ \E table \in RaceTables :
          /\ \E rows \in {<<>>} \cup {RaceInsertRow(table, <<>>, v).tbl : v \in RaceValues(table)} :
                disk = [EmptyStore EXCEPT ![table] = rows]
          /\ call \in [fn : {"insert_or_get"}, table : {table}, value : RaceValues(table),
                       at : [Invocations -> {"select"}], id : [Invocations -> {0}]]
    /\ db = disk
    /\ Init!3 /\ Init!4 /\ Init!5 /\ Init!6 /\ Init!7 /\ Init!8 /\ Init!9
    /\ Init!10 /\ Init!11 /\ Init!12 /\ Init!13 /\ Init!14 /\ Init!15 /\ Init!17

\* SELECT id FROM <table> WHERE <column> = ?; the function returns the id
\* when a row is found.
RaceSelect(p) ==
    /\ call.fn = "insert_or_get"
    /\ call.at[p] = "select"
    /\ LET rows == disk[call.table]
           found == {i \in DOMAIN rows : rows[i][ValueColumn(call.table)] = call.value}
       IN  IF found # {}
           THEN call' = [call EXCEPT !.at[p] = "returned",
                                     !.id[p] = rows[CHOOSE i \in found : TRUE].id]
           ELSE call' = [call EXCEPT !.at[p] = "insert"]
    /\ UNCHANGED <<disk, db, stage, pc, limit, batch, pos, details, gi, processed,
                   successful, outcome, last, n0, report, io>>

\* INSERT INTO <table> (<column>) VALUES (?) and conn.commit(): a value that
\* another connection has committed meanwhile violates the UNIQUE constraint,
\* and the statement raises.
RaceInsert(p) ==
    /\ call.fn = "insert_or_get"
    /\ call.at[p] = "insert"
    /\ LET r == RaceInsertRow(call.table, disk[call.table], call.value)
       IN  IF r.err
           THEN /\ call' = [call EXCEPT !.at[p] = "raised"]
                /\ UNCHANGED <<disk, db>>
           ELSE /\ call' = [call EXCEPT !.at[p] = "returned", !.id[p] = r.id]
                /\ disk' = [disk EXCEPT ![call.table] = r.tbl]
                /\ db' = disk'
    /\ UNCHANGED <<stage, pc, limit, batch, pos, details, gi, processed,
                   successful, outcome, last, n0, report, io>>

RaceNext == \E p \in Invocations : RaceSelect(p) \/ RaceInsert(p)

RaceSpec == RaceInit /\ [][RaceNext]_vars

\* ------------------------------------------------------------------------
\* The category stage run again and again: moviecalc.main calling
\* populate_movie_categories with one limit, on a store whose movies were
\* ingested and handled by the metadata stage.  A run is started whenever the
\* previous one has ended, and a run that has started goes on.
\* ------------------------------------------------------------------------
\* One iteration of the loop of populate_tmdb_data on a movie, its requests
\* completing; an iteration that ends in an IntegrityError leaves the store as
\* it was.
EnrichMovie(store, movie) ==
    LET tmdb_id == tmdb_search_movie(movie.title)
        d == tmdb_get_movie_details(tmdb_id)
        u == UpdateMovie(store.Movies, movie.id, Get(d, "id", NULLINT),
                         Get(d, "revenue", 0), Get(d, "overview", NULL))
        linked == LinkGenres([store EXCEPT !.Movies = u.tbl], movie.id,
                             Get(d, "genres", <<>>))
        release_date == Get(d, "release_date", NULL)
        r == insert_or_get_release_date(linked.ReleaseDates, release_date)
    IN  IF tmdb_id = NULLINT \/ u.err THEN store
        ELSE IF release_date = NULL \/ release_date = "" THEN linked
        ELSE [linked EXCEPT !.ReleaseDates = r.tbl,
                            !.MovieReleaseDates = InsertOrIgnoreMovieReleaseDate(
                                                      linked.MovieReleaseDates, movie.id, r.id)]

RECURSIVE EnrichAll(_, _)
\* The metadata stage on the first n rows of Movies.
EnrichAll(store, n) ==
    IF n = 0 THEN store
    ELSE EnrichMovie(EnrichAll(store, n - 1), store.Movies[n])

CoverageInit ==
    /\ \E movie_titles \in TitleLists :
          LET ingested == [EmptyStore EXCEPT !.Movies = InsertTitles(<<>>, movie_titles)]
          IN  disk = EnrichAll(ingested, Len(ingested.Movies))
    /\ db = disk
    /\ Init!3 /\ Init!4 /\ Init!5 /\ Init!6 /\ Init!7 /\ Init!8 /\ Init!9
    /\ Init!10 /\ Init!11 /\ Init!12 /\ Init!13 /\ Init!14 /\ Init!15 /\ Init!17
    /\ call \in [fn : {"populate_movie_categories"}, limit : 1..MaxLimit]

\* The next invocation, with the same limit.
CategoriesRerun ==
    /\ call.fn = "populate_movie_categories"
    /\ CategoriesStart(call.limit)

CoverageNext ==
    \/ CategoriesRerun
    \/ CategoriesStep
    \/ CategoriesEnd

CoverageSpec == CoverageInit /\ [][CoverageNext]_vars /\ WF_vars(CoverageNext)

\* ------------------------------------------------------------------------
\* Vocabulary of the properties
\* ------------------------------------------------------------------------
Stages == {"tmdb", "plots", "cat"}

Min(a, b) == IF a < b THEN a ELSE b

\* The ids of a list of selected rows.
Ids(rows) == {rows[i].id : i \in DOMAIN rows}

\* The marker by which a stage's selection recognises a processed movie.
Marked(name, store, movie_id) ==
    CASE name = "tmdb"  -> \E i \in DOMAIN store.Movies :
                               /\ store.Movies[i].id = movie_id
                               /\ store.Movies[i].tmdb_id # NULLINT
      [] name = "plots" -> \E i \in DOMAIN store.Plots : store.Plots[i].movie_id = movie_id
      [] name = "cat"   -> \E i \in DOMAIN store.MovieCategories :
                               store.MovieCategories[i].movie_id = movie_id

\* The run is at the head of its loop (between two entities).
AtLoopHead == \/ stage = "tmdb" /\ pc = "search"
              \/ stage \in {"plots", "cat"}

\* A run of an enrichment stage has returned normally.
RunDone == stage = "idle" /\ outcome = "done" /\ last \in Stages

\* The count the run reports as processed.
Reported == IF last = "tmdb" THEN processed ELSE Len(batch)

\* The movie has a Plots row whose plot_summary is NULL / is a text.
HasNullPlot(store, movie_id) ==
    \E i \in DOMAIN store.Plots :
        store.Plots[i].movie_id = movie_id /\ store.Plots[i].plot_summary = NULL

HasStoredPlot(store, movie_id) ==
    \E i \in DOMAIN store.Plots :
        store.Plots[i].movie_id = movie_id /\ store.Plots[i].plot_summary # NULL

\* ------------------------------------------------------------------------
\* Properties
\* ------------------------------------------------------------------------

\* C1 (as claimed): when a run of an enrichment stage has returned, a second
\* run of the same stage, whatever its limit, selects none of the entities
\* the first run handled.
C1_Idempotence ==
    RunDone =>
        \A lim \in 1..MaxLimit : Ids(Select(last, db, lim)) \cap Ids(Handled) = {}

\* C2 (as claimed): at any point where a run can be interrupted, after K
\* entities of the batch have been handled, the committed store holds the
\* stage's marker for exactly those K entities of the batch, and a next run
\* with the same limit selects entity K+1 first.
C2_Resumability ==
    (stage \in Stages /\ AtLoopHead) =>
        /\ \A i \in DOMAIN batch : Marked(stage, disk, batch[i].id) <=> i < pos
        /\ pos <= Len(batch) =>
              /\ Select(stage, disk, limit) # <<>>
              /\ Select(stage, disk, limit)[1].id = batch[pos].id

\* C3 (as claimed): a run with limit L over N unprocessed entities handles
\* min(L, N) entities, reports that count, and leaves N - min(L, N)
\* entities for the following run.
C3_BatchCap ==
    RunDone =>
        /\ Len(Handled) = Min(limit, n0)
        /\ Reported = Min(limit, n0)
        /\ Unprocessed(last, db) = n0 - Min(limit, n0)

\* C4 (as claimed): whenever a stage begins the next entity, everything it
\* wrote for the entities before it is committed (no transaction is open).
C4_PerEntityCommit ==
    (stage \in Stages /\ AtLoopHead /\ pos > 1) => db = disk

\* C5 (as claimed): once the metadata stage has handled a movie whose search
\* returns no match, the committed store marks the movie and the stage's
\* selection no longer contains it.
C5_NotFoundMarker ==
    (last = "tmdb" /\ (stage = "tmdb" \/ RunDone)) =>
        \A i \in 1..(pos - 1) :
            tmdb_search_movie(batch[i].title) = NULLINT =>
                /\ Marked("tmdb", disk, batch[i].id)
                /\ batch[i].id \notin Ids(Select("tmdb", disk, Len(disk.Movies)))

C7_NoFatalError == outcome # "RequestException"

\* C8 (as claimed): no run ends because a write collided with a UNIQUE
\* constraint.
C8_ConstraintNoOp == outcome # "IntegrityError"

\* The values the dimension tables can be asked to hold.
ReleaseDateSet == {Get(DetailsResponse(i), "release_date", NULL) : i \in TmdbIds} \ {NULL, ""}

CategoryLabels ==
    {"Musicians", "Athletes", "Scientists", "Activists", "Businesspeople",
     "Artists & Writers", "Politicians", "Criminals", "Entertainers", "Military",
     "Historical Events", "Other"}

\* Two results of an insert-or-get called twice in a row with one value: no
\* error, the same id, and the second call adds no row.
SameRowTwice(r1, r2) ==
    /\ ~r1.err /\ ~r2.err
    /\ r1.id = r2.id
    /\ r2.tbl = r1.tbl
    /\ ~r2.inserted

\* C9: in the running connection and in the committed store, no two rows of
\* Genres, ReleaseDates or Categories hold the same value, and calling
\* insert_or_get_genre / _release_date / _category twice with one value
\* yields one row with that value and the same id both times.
C9_DimensionUniqueness ==
    \A store \in {db, disk} :
        /\ NoDuplicates([i \in DOMAIN store.Genres |-> store.Genres[i].name])
        /\ NoDuplicates([i \in DOMAIN store.ReleaseDates |-> store.ReleaseDates[i].date])
        /\ NoDuplicates([i \in DOMAIN store.Categories |-> store.Categories[i].name])
        /\ \A name \in GenreNameSet :
              LET r1 == insert_or_get_genre(store.Genres, name)
                  r2 == insert_or_get_genre(r1.tbl, name)
              IN  /\ SameRowTwice(r1, r2)
                  /\ Cardinality({i \in DOMAIN r2.tbl : r2.tbl[i].name = name}) = 1
        /\ \A date \in ReleaseDateSet :
              LET r1 == insert_or_get_release_date(store.ReleaseDates, date)
                  r2 == insert_or_get_release_date(r1.tbl, date)
              IN  /\ SameRowTwice(r1, r2)
                  /\ Cardinality({i \in DOMAIN r2.tbl : r2.tbl[i].date = date}) = 1
        /\ \A name \in CategoryLabels :
              LET r1 == insert_or_get_category(store.Categories, name)
                  r2 == insert_or_get_category(r1.tbl, name)
              IN  /\ SameRowTwice(r1, r2)
                  /\ Cardinality({i \in DOMAIN r2.tbl : r2.tbl[i].name = name}) = 1

\* C9 witness: the metadata stage has asked for a genre that an earlier
\* movie had already created (one Genres row linked to two movies).
C9_Witness ==
    \E i, j \in DOMAIN disk.MovieGenres :
        /\ disk.MovieGenres[i].genre_id = disk.MovieGenres[j].genre_id
        /\ disk.MovieGenres[i].movie_id # disk.MovieGenres[j].movie_id

\* C10: in the running connection and in the committed store, MovieGenres,
\* MovieReleaseDates and MovieCategories hold at most one row per pair, and
\* linking a pair that is already linked leaves the table unchanged.
C10_JunctionUniqueness ==
    \A store \in {db, disk} :
        /\ NoDuplicates(store.MovieGenres)
        /\ NoDuplicates(store.MovieReleaseDates)
        /\ NoDuplicates(store.MovieCategories)
        /\ \A i \in DOMAIN store.MovieGenres :
              InsertOrIgnoreMovieGenre(store.MovieGenres, store.MovieGenres[i].movie_id,
                                       store.MovieGenres[i].genre_id) = store.MovieGenres
        /\ \A i \in DOMAIN store.MovieReleaseDates :
              InsertOrIgnoreMovieReleaseDate(store.MovieReleaseDates,
                                             store.MovieReleaseDates[i].movie_id,
                                             store.MovieReleaseDates[i].release_date_id)
                  = store.MovieReleaseDates
        /\ \A i \in DOMAIN store.MovieCategories :
              InsertOrIgnoreMovieCategory(store.MovieCategories,
                                          store.MovieCategories[i].movie_id,
                                          store.MovieCategories[i].category_id)
                  = store.MovieCategories

\* C10 witness: the genre loop has linked a genre that details lists twice
\* for one movie, and the movie has one link to it.
C10_Witness ==
    /\ stage = "tmdb" /\ pc = "genres" /\ gi > 2
    /\ \E j \in 1..(gi - 2) : details.genres[j] = details.genres[gi - 1]
    /\ Len(SelectSeq(db.MovieGenres, LAMBDA l : l.movie_id = batch[pos].id)) < gi - 1

\* ------------------------------------------------------------------------
\* Properties of the classifier (ClassifySpec)
\* ------------------------------------------------------------------------
\* The direct call has returned.
Returned == call.fn = "categorize_subject_from_overview" /\ call.returned

\* The call was made with a text (neither None nor the empty string).
HasText == call.overview # NULL /\ call.overview # ""

\* The labels of the eleven rules in the order the cascade tests them.
RuleLabels ==
    <<"Musicians", "Athletes", "Scientists", "Activists", "Businesspeople",
      "Artists & Writers", "Politicians", "Criminals", "Entertainers", "Military",
      "Historical Events">>

\* The keyword lists of the rules that test the overview only.
RuleWords ==
    <<MusiciansWords, AthletesWords, ScientistsWords, ActivistsWords,
      BusinesspeopleWords, ArtistsWritersWords, PoliticiansWords, CriminalsWords,
      EntertainersWords>>

\* The condition of rule k, on its own, for the arguments of the call.
RuleHolds(k, title, overview, genre_names) ==
    LET o == Lower(overview)
        g == IF genre_names = NULL THEN "" ELSE Lower(genre_names)
    IN  IF k <= 9 THEN AnyIn(RuleWords[k], o)
        ELSE IF k = 10
        THEN \/ AnyIn(MilitaryWords, o)
             \/ (Contains(o, "military") /\ ~Contains(o, "mixed martial"))
        ELSE \/ AnyIn(EventTitleWords, Lower(title))
             \/ /\ (Contains(g, "war") \/ Contains(g, "history"))
                /\ ~AnyIn(PersonWords, Prefix(o, PronounWindow))

\* The rules whose condition holds for the arguments of the call.
Holding == {k \in 1..11 : RuleHolds(k, call.title, call.overview, call.genre_names)}

\* The first PronounWindow characters of the lower-cased overview hold a
\* pronoun marker.
PronounInWindow == AnyIn(PersonWords, Prefix(Lower(call.overview), PronounWindow))

\* The title holds one of the title keywords of Historical Events.
TitleKeyword == AnyIn(EventTitleWords, Lower(call.title))

\* C11 (as claimed): a call whose overview is None or the empty string
\* returns Unknown, whatever the title and the genre names.
C11_MissingTextUnknown ==
    (Returned /\ ~HasText) => call.category = "Unknown"

\* C11 (amended): a call whose overview is None or the empty string returns
\* Other, whatever the title and the genre names.
C11_MissingTextOther ==
    (Returned /\ ~HasText) => call.category = "Other"

\* An empty overview with a title and genre names that satisfy the
\* Historical Events rule has been classified.
C11_Witness ==
    /\ Returned
    /\ call.overview = ""
    /\ TitleKeyword
    /\ call.genre_names = "War"

\* C12: on a call with a text, the result is the label of the earliest rule,
\* in the fixed order, whose condition holds; a text with both "professor"
\* and "soldier" and no keyword of an earlier rule is classified Scientists.
C12_Priority ==
    (Returned /\ HasText) =>
        /\ \A k \in Holding : (\A j \in Holding : k <= j) => call.category = RuleLabels[k]
        /\ ( /\ Contains(Lower(call.overview), "professor")
             /\ Contains(Lower(call.overview), "soldier")
             /\ 1 \notin Holding /\ 2 \notin Holding ) => call.category = "Scientists"

\* A text that satisfies both the Scientists and the Military rule has been
\* classified.
C12_Witness ==
    /\ Returned
    /\ HasText
    /\ {3, 10} \subseteq Holding
    /\ \A k \in Holding : k >= 3

\* C13 (as claimed): the explosion text with genre names containing "History"
\* and a title without title keyword is classified Historical Events.
C13_HistoricalEventsExample ==
    ( /\ Returned
      /\ call.overview = "A massive explosion destroys the facility during a classified operation."
      /\ call.genre_names # NULL
      /\ Contains(call.genre_names, "History")
      /\ ~TitleKeyword ) => call.category = "Historical Events"

C15_Default ==
    (Returned /\ HasText /\ Holding = {}) => call.category = "Other"

\* A text without keyword and without pronoun marker, with genre names that
\* name neither war nor history, has been classified.
C15_Witness ==
    /\ Returned
    /\ HasText
    /\ Holding = {}
    /\ ~PronounInWindow
    /\ call.genre_names = "Drama"

\* ------------------------------------------------------------------------
\* Properties of the aggregator (StatsSpec)
\* ------------------------------------------------------------------------
\* The names of the categories a movie is linked to.
CategoryNamesOf(store, movie_id) ==
    {store.Categories[j].name :
        j \in {k \in DOMAIN store.Categories :
                 \E i \in DOMAIN store.MovieCategories :
                    /\ store.MovieCategories[i].movie_id = movie_id
                    /\ store.MovieCategories[i].category_id = store.Categories[k].id}}

\* The rows of Movies that are categorized as X and have a revenue above 0.
PayingMovies(store, X) ==
    {m \in DOMAIN store.Movies :
        /\ X \in CategoryNamesOf(store, store.Movies[m].id)
        /\ store.Movies[m].revenue # NULLINT
        /\ store.Movies[m].revenue > 0}

RECURSIVE TotalRevenue(_, _, _)
\* The revenue of the paying movies of X among the first n rows of Movies.
TotalRevenue(store, X, n) ==
    IF n = 0 THEN 0
    ELSE TotalRevenue(store, X, n - 1)
         + (IF n \in PayingMovies(store, X) THEN store.Movies[n].revenue ELSE 0)

RECURSIVE BucketSum(_)
\* The sum of the counts of a set of genre buckets.
BucketSum(rows) ==
    IF rows = {} THEN 0
    ELSE LET r == CHOOSE x \in rows : TRUE IN r.count + BucketSum(rows \ {r})

CategoryNames(store) == {store.Categories[j].name : j \in DOMAIN store.Categories}

\* C17: for every category, the average revenue of the report is the sum of
\* the revenues above 0 of the category's movies over the number of those
\* movies, over 1,000,000; movies with revenue 0 or NULL count in neither, and
\* a category without such a movie has no line.  Two movies with 100,000,000
\* and 50,000,000 give 75.0 (shown as 75.00).
C17_RevenueAggregation ==
    report.written =>
        \A X \in CategoryNames(db) :
            LET paying == PayingMovies(db, X)
                rows == {r \in report.revenue_stats : r.category = X}
            IN  IF paying = {} THEN rows = {}
                ELSE /\ Cardinality(rows) = 1
                     /\ \A r \in rows :
                          /\ r.avg_revenue_millions.num = TotalRevenue(db, X, Len(db.Movies))
                          /\ r.avg_revenue_millions.den = Cardinality(paying) * Million
                          /\ r.movie_count = Cardinality(paying)
                          /\ ( /\ Cardinality(paying) = 2
                               /\ {db.Movies[m].revenue : m \in paying} = {100000000, 50000000} )
                             => /\ r.avg_revenue_millions.num = 75 * r.avg_revenue_millions.den
                                /\ r.shown = 7500

\* The report of a store with two movies of one category, 100,000,000 and
\* 50,000,000.
C17_Witness ==
    /\ report.written
    /\ \E r \in report.revenue_stats : r.movie_count = 2 /\ r.shown = 7500

\* C18: a categorized movie with N linked genres adds exactly 1 to each of its
\* N (category, genre) buckets: a bucket counts the category's movies linked to
\* the genre, and the counts of a category sum to the number of MovieGenres
\* links of the category's movies.
C18_GenreMultiCount ==
    report.written =>
        \A X \in CategoryNames(db) :
            /\ \A j \in DOMAIN db.Genres :
                 LET linked == {m \in DOMAIN db.Movies :
                                  /\ X \in CategoryNamesOf(db, db.Movies[m].id)
                                  /\ \E i \in DOMAIN db.MovieGenres :
                                        /\ db.MovieGenres[i].movie_id = db.Movies[m].id
                                        /\ db.MovieGenres[i].genre_id = db.Genres[j].id}
                     rows == {r \in report.genre_counts :
                                r.category = X /\ r.genre = db.Genres[j].name}
                 IN  IF linked = {} THEN rows = {}
                     ELSE /\ Cardinality(rows) = 1
                          /\ \A r \in rows : r.count = Cardinality(linked)
            /\ BucketSum({r \in report.genre_counts : r.category = X})
                 = Cardinality({i \in DOMAIN db.MovieGenres :
                                  X \in CategoryNamesOf(db, db.MovieGenres[i].movie_id)})

\* The report of a store in which two movies of one category share a genre and
\* one of them has a second genre.
C18_Witness ==
    /\ report.written
    /\ \E r1, r2 \in report.genre_counts :
          r1.category = r2.category /\ r1.genre # r2.genre /\ r1.count = 2 /\ r2.count = 1

TitlesOf(movies) == [i \in DOMAIN movies |-> movies[i].title]

\* C20: an ingestion run leaves exactly one Movies row per distinct title,
\* the titles being those present before and those of the list; every row
\* present before keeps its id, tmdb_id, revenue and overview; ingesting the
\* same list again changes nothing; the result is committed.
C20_InsertOrIgnore ==
    [][ (stage = "idle" /\ last' = "ingest") =>
        \A movie_titles \in TitleLists :
          Ingest(movie_titles) =>
            /\ NoDuplicates(TitlesOf(db'.Movies))
            /\ Range(TitlesOf(db'.Movies)) = Range(TitlesOf(db.Movies)) \cup Range(movie_titles)
            /\ \A i \in DOMAIN db.Movies :
                  \E j \in DOMAIN db'.Movies :
                     /\ db'.Movies[j].title = db.Movies[i].title
                     /\ db'.Movies[j].id = db.Movies[i].id
                     /\ db'.Movies[j].tmdb_id = db.Movies[i].tmdb_id
                     /\ db'.Movies[j].revenue = db.Movies[i].revenue
                     /\ db'.Movies[j].overview = db.Movies[i].overview
            /\ InsertTitles(db'.Movies, movie_titles) = db'.Movies
            /\ disk' = db' ]_vars

\* An ingestion run has returned on a store that holds a movie with TMDB
\* data.
C20_Witness ==
    /\ last = "ingest"
    /\ outcome = "done"
    /\ \E i \in DOMAIN db.Movies : db.Movies[i].tmdb_id # NULLINT

\* ------------------------------------------------------------------------
\* Properties of repeated runs of the metadata stage (SaturationSpec)
\* ------------------------------------------------------------------------
\* The latest run of the metadata stage selected no movie.
SelectedNothing == last = "tmdb" /\ stage = "idle" /\ outcome = "done" /\ batch = <<>>

\* TMDB can resolve the title: the search has a match and the details of the
\* match are a movie body.
Resolvable(title) ==
    /\ tmdb_search_movie(title) # NULLINT
    /\ "id" \in DOMAIN tmdb_get_movie_details(tmdb_search_movie(title))

\* C21 (as claimed): under repeated runs of the metadata stage with one limit
\* and fixed answers, eventually a run selects no movie, and every movie that
\* TMDB can resolve is eventually enriched in the committed store.
C21_Saturation ==
    /\ <>SelectedNothing
    /\ \A title \in Titles :
          (\E i \in DOMAIN disk.Movies : disk.Movies[i].title = title /\ Resolvable(title))
              ~> (\E i \in DOMAIN disk.Movies :
                     disk.Movies[i].title = title /\ disk.Movies[i].tmdb_id # NULLINT)

\* ------------------------------------------------------------------------
\* Properties of the requests (Spec)
\* ------------------------------------------------------------------------
\* C22 (as claimed): in every enrichment stage, every request (metadata
\* search, metadata details, plot page, plot search) comes right after a
\* pause.
C22_RateLimiting ==
    \A k \in DOMAIN io : io[k] \in ExternalCalls => (k > 1 /\ io[k - 1] = Pause)

\* ------------------------------------------------------------------------
\* Properties of failed requests (Spec)
\* ------------------------------------------------------------------------
\* C23 (as claimed): when the request of an entity could not be completed, the
\* stage has written nothing for the entity: the plot stage leaves a movie
\* whose request raised without a Plots row, as a movie not yet attempted.
C23_FailureLeavesUnmarked ==
    (last = "plots" /\ (stage = "plots" \/ RunDone)) =>
        \A i \in 1..(pos - 1) :
            WikipediaResponse(batch[i].title).status = "raises"
                => ~Marked("plots", db, batch[i].id)

\* ------------------------------------------------------------------------
\* Properties of the revenue-by-year report (Spec)
\* ------------------------------------------------------------------------
\* The release dates the metadata stage has linked to a movie.
ReleaseDatesOf(store, movie_id) ==
    {store.ReleaseDates[j].date :
        j \in {k \in DOMAIN store.ReleaseDates :
                 \E i \in DOMAIN store.MovieReleaseDates :
                    /\ store.MovieReleaseDates[i].movie_id = movie_id
                    /\ store.MovieReleaseDates[i].release_date_id = store.ReleaseDates[k].id}}

\* C24 (as claimed): every movie for which the metadata stage stored a release
\* date and a revenue above 0 has a row in the revenue-by-year data of the
\* report, under the year of that release date.
C24_RevenueByYear ==
    report.written =>
        \A m \in DOMAIN db.Movies :
            (db.Movies[m].revenue > 0 /\ ReleaseDatesOf(db, db.Movies[m].id) # {}) =>
                \E r \in report.movies_by_year :
                    /\ r.title = db.Movies[m].title
                    /\ \E date \in ReleaseDatesOf(db, db.Movies[m].id) : r.year = Prefix(date, 4)

\* ------------------------------------------------------------------------
\* Properties of a terminated metadata run (Spec)
\* ------------------------------------------------------------------------
\* The store links the Movies row to every genre and to the release date of
\* the details fetched for it (the details of its tmdb_id).
FullyLinked(store, movie) ==
    LET d == tmdb_get_movie_details(movie.tmdb_id)
        release_date == Get(d, "release_date", NULL)
    IN  /\ \A genre_name \in Range(Get(d, "genres", <<>>)) :
              \E j \in DOMAIN store.Genres, i \in DOMAIN store.MovieGenres :
                 /\ store.Genres[j].name = genre_name
                 /\ store.MovieGenres[i].movie_id = movie.id
                 /\ store.MovieGenres[i].genre_id = store.Genres[j].id
        /\ (release_date # NULL /\ release_date # "")
              => release_date \in ReleaseDatesOf(store, movie.id)

\* C25 (as claimed): when the process was terminated inside
\* populate_tmdb_data, every movie of the committed store with a tmdb_id has
\* all the genre links and the release-date link of its details.
C25_CrashSafety ==
    (last = "tmdb" /\ outcome = "killed") =>
        \A i \in DOMAIN disk.Movies :
            disk.Movies[i].tmdb_id # NULLINT => FullyLinked(disk, disk.Movies[i])

\* ------------------------------------------------------------------------
\* Properties of the category assignments (Spec)
\* ------------------------------------------------------------------------
\* The MovieCategories rows of a movie.
CategoryRows(store, movie_id) ==
    {i \in DOMAIN store.MovieCategories : store.MovieCategories[i].movie_id = movie_id}

\* C26: in the running connection and in the committed store every movie has
\* at most one MovieCategories row; a run of populate_movie_categories selects
\* only movies without one, and links each selected movie once.
C26_OneCategoryPerMovie ==
    /\ \A store \in {db, disk} :
          \A m \in DOMAIN store.Movies :
             Cardinality(CategoryRows(store, store.Movies[m].id)) <= 1
    /\ stage = "cat" =>
          \A i \in DOMAIN batch :
             Cardinality(CategoryRows(db, batch[i].id)) = (IF i < pos THEN 1 ELSE 0)

\* A later run of the category stage is under way on a store in which another
\* movie already has its category.
C26_Witness ==
    /\ stage = "cat"
    /\ pos > 1
    /\ \E m \in DOMAIN disk.Movies :
          /\ CategoryRows(disk, disk.Movies[m].id) # {}
          /\ disk.Movies[m].id \notin Ids(batch)

\* ------------------------------------------------------------------------
\* Properties of two racing invocations (RaceSpec)
\* ------------------------------------------------------------------------
\* C27 (as claimed): when both invocations have run their SELECT before either
\* INSERT, neither invocation gets an error, and once both are through the
\* table holds exactly one row with the value.
C27_RaceDiscarded ==
    call.fn = "insert_or_get" =>
        /\ \A p \in Invocations : call.at[p] # "raised"
        /\ (\A p \in Invocations : call.at[p] = "returned") =>
              Cardinality({i \in DOMAIN disk[call.table] :
                             disk[call.table][i][ValueColumn(call.table)] = call.value}) = 1

\* ------------------------------------------------------------------------
\* Properties of the processed counter (Spec)
\* ------------------------------------------------------------------------
\* C28 (as claimed): when a run of populate_tmdb_data has returned, its
\* processed counter is the number of movies of the batch (all selected with a
\* NULL tmdb_id) that have a tmdb_id in the committed store.
C28_ProcessedMatchesMarkers ==
    (RunDone /\ last = "tmdb") =>
        processed = Cardinality({i \in DOMAIN batch : Marked("tmdb", disk, batch[i].id)})

\* ------------------------------------------------------------------------
\* Properties of stored plots (Spec)
\* ------------------------------------------------------------------------
\* Every row of plots that holds a text is a row of plots2, with the same text.
TextsKept(plots, plots2) ==
    \A i \in DOMAIN plots :
        plots[i].plot_summary # NULL => \E j \in DOMAIN plots2 : plots2[j] = plots[i]

\* C29: a plot text of the committed store stays as it is in every step, and
\* an iteration of the plot stage keeps the texts the connection holds; a run
\* of populate_plots_table selects no movie with a stored text; no movie has
\* more than one Plots row, in the connection or in the committed store.
C29_StoredPlotsStable ==
    [][ /\ TextsKept(disk.Plots, disk'.Plots)
        /\ (stage = "plots" /\ stage' = "plots") => TextsKept(db.Plots, db'.Plots)
        /\ stage' = "plots" =>
              \A i \in DOMAIN batch' : ~HasStoredPlot(disk', batch'[i].id)
        /\ \A store \in {db', disk'} :
              NoDuplicates([i \in DOMAIN store.Plots |-> store.Plots[i].movie_id]) ]_vars

\* A later run of the plot stage has handled a movie that an earlier run left
\* with a NULL row, on a store in which another movie has its text.
C29_Witness ==
    /\ stage = "plots"
    /\ pos > 1
    /\ HasNullPlot(disk, batch[pos - 1].id)
    /\ \E m \in DOMAIN disk.Movies : HasStoredPlot(disk, disk.Movies[m].id)

\* ------------------------------------------------------------------------
\* Properties of repeated runs of the category stage (CoverageSpec)
\* ------------------------------------------------------------------------
\* The Movies row has a category in the committed store.
Categorized(movie) == CategoryRows(disk, movie.id) # {}

\* C30 (as claimed): under repeated runs of populate_movie_categories, every
\* movie of Movies eventually has a category, the movies with a NULL overview
\* included.
C30_Coverage ==
    <>(\A m \in DOMAIN disk.Movies : Categorized(disk.Movies[m]))

\* C30 (amended): under repeated runs of populate_movie_categories, every movie
\* with an overview eventually has, and keeps, a category; a movie whose
\* overview is NULL never gets one.
C30_CoverageWithOverview ==
    /\ <>[](\A m \in DOMAIN disk.Movies :
               disk.Movies[m].overview # NULL => Categorized(disk.Movies[m]))
    /\ [](\A m \in DOMAIN db.Movies :
               db.Movies[m].overview = NULL => CategoryRows(db, db.Movies[m].id) = {})

\* A run has selected nothing, after runs that categorized a movie, on a store
\* that also holds a movie without overview.
C30_Witness ==
    /\ call.fn = "populate_movie_categories"
    /\ stage = "idle" /\ last = "cat" /\ outcome = "done" /\ batch = <<>>
    /\ \E m \in DOMAIN disk.Movies : Categorized(disk.Movies[m])
    /\ \E m \in DOMAIN disk.Movies : disk.Movies[m].overview = NULL

====
